---------------------------- MODULE Spec2Model ----------------------------
(***************************************************************************)
(* The signal pipeline of src/main.py: candle ingestion, pattern           *)
(* detection, ranking, silencing and notification dispatch, driven by      *)
(* bot_loop.                                                               *)
(*                                                                         *)
(* Conventions of the model                                                *)
(*   - time.time() is an integer number of seconds, never decreasing;      *)
(*   - prices are positive integers; a score s of the code is the integer  *)
(*     100 * s (0.75 is 75), a threshold c < m * 0.97 is 100*c < 97*m;     *)
(*   - a label f"{short}: {name}" is the pair <<short, name>>;             *)
(*   - a Python exception in flight is its class name in exc.              *)
(***************************************************************************)
EXTENDS Integers, Sequences, FiniteSets, TLC

VARIABLES
    now,            \* time.time(), seconds
    last_signals,   \* the dict last_signals: key -> time of last approval
    pc,             \* where bot_loop stands
    cycle,          \* number of the cycle bot_loop is in (0 before the first)
    fetched,        \* what the candle source returned to this cycle's scan
    res,            \* analyze_symbol_patterns' result per symbol, this scan
    bull,           \* run_once_and_report's local bull
    bear,           \* run_once_and_report's local bear
    idx,            \* position of the chart loop in all_signals (1-based)
    sent,           \* the notifications dispatched in this cycle, in order
    checks,         \* history: the should_post calls made, in order
    exc,            \* the exception raised by this cycle's body, or "none"
    files,          \* the chart files on disk
    tg,             \* outcome of the latest Telegram request
    prev,           \* history: the previous run of run_once_and_report
    start_signals,  \* history: last_signals when this run started
    faults,         \* history: how often plot_chart or os.remove has raised
    series          \* the candle series handed to detect_patterns

vars == <<now, last_signals, pc, cycle, fetched, res, bull, bear, idx, sent,
          checks, exc, files, tg, prev, start_signals, faults, series>>

---------------------------------------------------------------------------
(* Config (src/main.py 21-33)                                              *)

\* a configuration with two contracts under one short code
SYMBOLS_SharedCode ==
    << <<"BTCUSDT_PERP.A", "BTC">>, <<"ETHUSDT_PERP.A", "ETH">>,
       <<"XRPUSDT_PERP.A", "XRP">>, <<"BTCUSD_PERP.A", "BTC">> >>

SYMBOLS == << <<"BTCUSDT_PERP.A", "BTC">>, <<"ETHUSDT_PERP.A", "ETH">>,
              <<"XRPUSDT_PERP.A", "XRP">>, <<"SOLUSDT_PERP.A", "SOL">> >>

RUN_EVERY_SECONDS == 2 * 60 * 60

SILENCE_SECONDS == 6 * 60 * 60

\* the slice [:5] of collect_top_patterns
TOP_N == 5

ShortCodes == {SYMBOLS[i][2] : i \in 1..Len(SYMBOLS)}

---------------------------------------------------------------------------
(* Python list primitives                                                  *)

Range(s) == {s[i] : i \in 1..Len(s)}

\* max(s), min(s) of a non-empty list
PyMax(s) == CHOOSE x \in Range(s) : \A y \in Range(s) : y <= x

PyMin(s) == CHOOSE x \in Range(s) : \A y \in Range(s) : x <= y

RECURSIVE PySum(_)
PySum(s) == IF s = <<>> THEN 0 ELSE s[1] + PySum(Tail(s))

\* s[j] for a Python index j (negative counts from the end); defined when
\* -len <= j < len, an IndexError otherwise
InBounds(s, j) == -Len(s) <= j /\ j < Len(s)

At(s, j) == s[IF j >= 0 THEN j + 1 ELSE Len(s) + j + 1]

\* s[:-k]: everything but the last k elements
DropLast(s, k) == IF Len(s) > k THEN SubSeq(s, 1, Len(s) - k) ELSE <<>>

\* s[-k:]: the last k elements, the whole list when it is shorter
TakeLast(s, k) == IF Len(s) > k THEN SubSeq(s, Len(s) - k + 1, Len(s)) ELSE s

\* s[:k]
TakeFirst(s, k) == IF Len(s) > k THEN SubSeq(s, 1, k) ELSE s

---------------------------------------------------------------------------
(* Pattern detection (src/main.py 107-150)                                 *)

Closes(candles) == [i \in 1..Len(candles) |-> candles[i].close]
Highs(candles) == [i \in 1..Len(candles) |-> candles[i].high]
Lows(candles) == [i \in 1..Len(candles) |-> candles[i].low]

\* a consolidation test that lets a ratio of exactly 1.02 through
RatioBelow102_Loose(a, b) ==
    IF b > 0 THEN 100 * a <= 102 * b ELSE 100 * a >= 102 * b

\* a / b < 1.02 for the quotient of two prices, b # 0
RatioBelow102(a, b) == IF b > 0 THEN 100 * a < 102 * b ELSE 100 * a > 102 * b

\* x > s / n for a float division, n # 0
AboveQuotient(x, s, n) == IF n > 0 THEN x * n > s ELSE x * n < s

\* The exception detect_patterns raises on these candles, "none" when it
\* returns. The conditions are evaluated in the order of the code, and the
\* right operand of an "and" only when the left one is true.
DetectError(candles) ==
    LET c == Closes(candles)
        h == Highs(candles)
        L == Len(candles)
        mid == L \div 2
        recent == TakeLast(c, 10)
    IN  IF L = 0 THEN "IndexError"                        \* closes[-1]
        ELSE IF ~InBounds(h, mid - 2) THEN "IndexError"   \* highs[mid - 2]
        ELSE IF At(h, mid) > At(h, mid - 2) /\ ~InBounds(h, mid + 2)
             THEN "IndexError"                            \* highs[mid + 2]
        ELSE IF At(c, -1) * L > PySum(c) /\ DropLast(c, 20) = <<>>
             THEN "ValueError"                            \* max([])
        ELSE IF PyMin(recent) = 0 THEN "ZeroDivisionError"
        ELSE IF RatioBelow102(PyMax(recent), PyMin(recent)) /\ L = 10
             THEN "ZeroDivisionError"                     \* / (len - 10)
        ELSE "none"

\* a detector bank that tries Double Bottom only when Double Top did not fire
detect_patterns_ElseIf(candles, short) ==
    LET c == Closes(candles)
        h == Highs(candles)
        l == Lows(candles)
        L == Len(candles)
        mid == L \div 2
        last == At(c, -1)
        recent == TakeLast(c, 10)
        double_top ==
            IF 100 * last < 97 * PyMax(h)
            THEN << <<"bearish", 75, <<short, "Double Top">> >> >> ELSE <<>>
        double_bottom ==
            IF double_top = <<>> /\ 100 * last > 103 * PyMin(l)
            THEN << <<"bullish", 75, <<short, "Double Bottom">> >> >> ELSE <<>>
        head_shoulders ==
            IF At(h, mid) > At(h, mid - 2) /\ At(h, mid) > At(h, mid + 2)
            THEN << <<"bearish", 85, <<short, "Head & Shoulders">> >> >>
            ELSE <<>>
        cup_handle ==
            IF last * L > PySum(c) /\ last > PyMax(DropLast(c, 20))
            THEN << <<"bullish", 80, <<short, "Cup & Handle">> >> >> ELSE <<>>
        falling_wedge ==
            IF At(h, -1) < At(h, -2) /\ At(l, -1) > At(l, -2)
            THEN << <<"bullish", 70, <<short, "Falling Wedge">> >> >> ELSE <<>>
        rising_wedge ==
            IF At(h, -1) > At(h, -2) /\ At(l, -1) < At(l, -2)
            THEN << <<"bearish", 70, <<short, "Rising Wedge">> >> >> ELSE <<>>
        flag ==
            IF RatioBelow102(PyMax(recent), PyMin(recent))
            THEN IF AboveQuotient(last, PySum(DropLast(c, 10)), L - 10)
                 THEN << <<"bullish", 65, <<short, "Bull Flag">> >> >>
                 ELSE << <<"bearish", 65, <<short, "Bear Flag">> >> >>
            ELSE <<>>
    IN  double_top \o double_bottom \o head_shoulders \o cup_handle
            \o falling_wedge \o rising_wedge \o flag

\* The list detect_patterns returns: (direction, score, label) triples in
\* detector order. Meaningful when DetectError(candles) = "none".
detect_patterns(candles, short) ==
    LET c == Closes(candles)
        h == Highs(candles)
        l == Lows(candles)
        L == Len(candles)
        mid == L \div 2
        last == At(c, -1)
        recent == TakeLast(c, 10)
        double_top ==
            IF 100 * last < 97 * PyMax(h)
            THEN << <<"bearish", 75, <<short, "Double Top">> >> >> ELSE <<>>
        double_bottom ==
            IF 100 * last > 103 * PyMin(l)
            THEN << <<"bullish", 75, <<short, "Double Bottom">> >> >> ELSE <<>>
        head_shoulders ==
            IF At(h, mid) > At(h, mid - 2) /\ At(h, mid) > At(h, mid + 2)
            THEN << <<"bearish", 85, <<short, "Head & Shoulders">> >> >>
            ELSE <<>>
        cup_handle ==
            IF last * L > PySum(c) /\ last > PyMax(DropLast(c, 20))
            THEN << <<"bullish", 80, <<short, "Cup & Handle">> >> >> ELSE <<>>
        falling_wedge ==
            IF At(h, -1) < At(h, -2) /\ At(l, -1) > At(l, -2)
            THEN << <<"bullish", 70, <<short, "Falling Wedge">> >> >> ELSE <<>>
        rising_wedge ==
            IF At(h, -1) > At(h, -2) /\ At(l, -1) < At(l, -2)
            THEN << <<"bearish", 70, <<short, "Rising Wedge">> >> >> ELSE <<>>
        flag ==
            IF RatioBelow102(PyMax(recent), PyMin(recent))
            THEN IF AboveQuotient(last, PySum(DropLast(c, 10)), L - 10)
                 THEN << <<"bullish", 65, <<short, "Bull Flag">> >> >>
                 ELSE << <<"bearish", 65, <<short, "Bear Flag">> >> >>
            ELSE <<>>
    IN  double_top \o double_bottom \o head_shoulders \o cup_handle
            \o falling_wedge \o rising_wedge \o flag

\* analyze_symbol_patterns once get_candles has answered: an empty answer
\* is no signal, anything else goes through detect_patterns.
AnalyzeError(candles) ==
    IF candles = <<>> THEN "none" ELSE DetectError(candles)

analyze_symbol_patterns(candles, short) ==
    IF candles = <<>> THEN <<>> ELSE detect_patterns(candles, short)

---------------------------------------------------------------------------
(* Ranking (src/main.py 155-167)                                           *)

\* The entries collect_top_patterns appends for one symbol, in the order of
\* its results: the bullish ones (wantBull) or all the others.
RECURSIVE EntriesOf(_, _, _)
EntriesOf(short, results, wantBull) ==
    IF results = <<>> THEN <<>>
    ELSE LET r == results[1]
             entry == [symbol |-> short, score |-> r[2], desc |-> r[3]]
         IN  (IF (r[1] = "bullish") = wantBull THEN <<entry>> ELSE <<>>)
                 \o EntriesOf(short, Tail(results), wantBull)

\* The list bull (wantBull) or bear before sorting: symbols k.. in the
\* order of SYMBOLS.
RECURSIVE Gather(_, _, _)
Gather(results, k, wantBull) ==
    IF k > Len(SYMBOLS) THEN <<>>
    ELSE EntriesOf(SYMBOLS[k][2], results[k], wantBull)
             \o Gather(results, k + 1, wantBull)

\* a sort that puts an entry in front of the earlier entries of its score
RECURSIVE InsertByScore_Unstable(_, _)
InsertByScore_Unstable(sorted, e) ==
    IF sorted = <<>> THEN <<e>>
    ELSE IF sorted[1].score > e.score
         THEN <<sorted[1]>> \o InsertByScore_Unstable(Tail(sorted), e)
         ELSE <<e>> \o sorted

\* sorted(xs, key=score, reverse=True): descending and stable, an entry
\* goes behind the entries of the same score that came before it.
RECURSIVE InsertByScore(_, _)
InsertByScore(sorted, e) ==
    IF sorted = <<>> THEN <<e>>
    ELSE IF sorted[1].score >= e.score
         THEN <<sorted[1]>> \o InsertByScore(Tail(sorted), e)
         ELSE <<e>> \o sorted

RECURSIVE SortedByScore(_)
SortedByScore(xs) ==
    IF xs = <<>> THEN <<>>
    ELSE InsertByScore(SortedByScore(SubSeq(xs, 1, Len(xs) - 1)), xs[Len(xs)])

\* a selection that sorts and does not cut
TopPatterns_Uncut(xs) == SortedByScore(xs)

\* sorted(...)[:5]
TopPatterns(xs) == TakeFirst(SortedByScore(xs), TOP_N)

\* collect_top_patterns, given what analyze_symbol_patterns returned for
\* each symbol of SYMBOLS
collect_top_patterns(results) ==
    [bull |-> TopPatterns(Gather(results, 1, TRUE)),
     bear |-> TopPatterns(Gather(results, 1, FALSE))]

---------------------------------------------------------------------------
(* Silence filter (src/main.py 169-175)                                    *)

NoSignals == [k \in {} |-> 0]

\* a filter keyed by the symbol alone
SignalKey_SymbolOnly(symbol, desc) == <<symbol, symbol>>

SignalKey(symbol, desc) == <<symbol, desc>>

\* a filter that takes the scan period for the cooldown
ShouldPost_ScanPeriod(signals, key, t) ==
    ~(key \in DOMAIN signals /\ t - signals[key] < RUN_EVERY_SECONDS)

\* a filter that silences nothing
ShouldPost_Always(signals, key, t) == TRUE

\* a filter that still silences at the very end of the cooldown
ShouldPost_Inclusive(signals, key, t) ==
    ~(key \in DOMAIN signals /\ t - signals[key] <= SILENCE_SECONDS)

\* should_post's return value at time t
ShouldPost(signals, key, t) ==
    ~(key \in DOMAIN signals /\ t - signals[key] < SILENCE_SECONDS)

\* a filter that restarts the cooldown on every check
Recorded_Refreshed(signals, key, t) ==
    [k \in DOMAIN signals \cup {key} |-> IF k = key THEN t ELSE signals[k]]

\* a filter that forgets to record approvals
Recorded_Never(signals, key, t) == signals

\* a filter that keeps only the key it has just approved
Recorded_Reset(signals, key, t) ==
    IF ShouldPost(signals, key, t) THEN [k \in {key} |-> t] ELSE signals

\* last_signals after should_post(key) at time t
Recorded(signals, key, t) ==
    IF ShouldPost(signals, key, t)
    THEN [k \in DOMAIN signals \cup {key} |->
              IF k = key THEN t ELSE signals[k]]
    ELSE signals

---------------------------------------------------------------------------
(* Notifications (src/main.py 38-55, 184-198, 212-213, 217, 222)           *)

Message(kind, body) == [kind |-> kind, body |-> body]

\* "* {symbol} -> {desc} (score {score:.2f})", one line per entry
RECURSIVE SummaryLines(_)
SummaryLines(entries) ==
    IF entries = <<>> THEN <<>>
    ELSE << <<entries[1].symbol, entries[1].desc, entries[1].score>> >>
             \o SummaryLines(Tail(entries))

\* the lines of the entries the silence filter would let through
RECURSIVE PostableLines(_)
PostableLines(entries) ==
    IF entries = <<>> THEN <<>>
    ELSE (IF ShouldPost(last_signals,
                        SignalKey(entries[1].symbol, entries[1].desc), now)
          THEN SummaryLines(<<entries[1]>>)
          ELSE <<>>) \o PostableLines(Tail(entries))

\* a summary that leaves out the silenced signals
SummaryText_Unsilenced(bullEntries, bearEntries) ==
    Message("summary", [bullish |-> PostableLines(bullEntries),
                        bearish |-> PostableLines(bearEntries)])

\* the summary text: the bullish section, then the bearish one
SummaryText(bullEntries, bearEntries) ==
    Message("summary", [bullish |-> SummaryLines(bullEntries),
                        bearish |-> SummaryLines(bearEntries)])

\* 'bull' in desc.lower(): of the labels detect_patterns builds from the
\* short codes of SYMBOLS only "<short>: Bull Flag" contains it
ContainsBull(desc) == desc[2] = "Bull Flag"

ChartFile(symbol, t) == <<symbol, t>>

PhotoMessage(sig, t) ==
    Message("photo", [file |-> ChartFile(sig.symbol, t),
                      caption |-> <<IF ContainsBull(sig.desc) THEN "fire"
                                    ELSE "snow", sig.desc, sig.score>>])

\* a Telegram request succeeds or fails; either way the sender returns
TelegramOutcomes == {"ok", "error"}

\* The exception that leaves send_telegram_text for an outcome of its
\* request: the except clause takes every Exception, so none does.
send_telegram_text(outcome) == "none"

\* a photo send without the except clause
send_telegram_photo_Raising(outcome) ==
    IF outcome = "error" THEN "RequestException" ELSE "none"

\* The same for send_telegram_photo, whose try also covers open(path).
send_telegram_photo(outcome) == "none"

\* plt.savefig(filename): the chart file is on disk
Rendered(fs, file) == fs \cup {file}

\* a chart loop that leaves its files behind
Removed_Kept(fs, file) == fs

\* os.remove(chart_file)
Removed(fs, file) == fs \ {file}

---------------------------------------------------------------------------
(* The candle source: the answers get_candles can give (src/main.py 60-72) *)

\* length of a full candle series of the model
FeedLen == 22

\* how late a cycle starts, in seconds: what time.sleep oversleeps plus what
\* the cycle before took
Lateness == {0, 1}

\* cycles bot_loop runs in the model
MaxCycles == 3

\* times plot_chart or os.remove raises in one run of the model
MaxFaults == 1

Candle(o, h, l, c, i) ==
    [open |-> o, high |-> h, low |-> l, close |-> c,
     timestamp |-> i * RUN_EVERY_SECONDS * 1000]

\* index (1-based) of highs[mid] in a full series
MidIndex == (FeedLen \div 2) + 1

\* a quiet series: the last ten closes span more than 2%, no detector fires
CalmFeed ==
    [i \in 1..FeedLen |->
        Candle(1000, 1010, 980,
               IF i = FeedLen - 2 THEN 985
               ELSE IF i = FeedLen - 1 THEN 1005 ELSE 1000, i)]

\* the quiet series with a peak of the highs in the middle
PeakFeed ==
    [i \in 1..FeedLen |->
        IF i = MidIndex THEN [CalmFeed[i] EXCEPT !.high = 1020]
        ELSE CalmFeed[i]]

\* a rally: old closes at 900 with a spike of the highs in the middle, the
\* last ten closes tight around 1000, the last bar inside the one before
RallyFeed ==
    [i \in 1..FeedLen |->
        IF i = FeedLen THEN Candle(1000, 1012, 1000, 1010, i)
        ELSE IF i = FeedLen - 1 THEN Candle(1000, 1015, 995, 1000, i)
        ELSE IF i > FeedLen - 10 THEN Candle(1000, 1005, 995, 1000, i)
        ELSE IF i = MidIndex THEN Candle(900, 1100, 895, 900, i)
        ELSE Candle(900, 905, 895, 900, i)]

\* a slide: old closes at 1100 with a spike of the highs in the middle, the
\* last ten closes flat at 1000, the last bar engulfing the one before
SlideFeed ==
    [i \in 1..FeedLen |->
        IF i = FeedLen THEN Candle(1000, 1010, 990, 1000, i)
        ELSE IF i > FeedLen - 10 THEN Candle(1000, 1005, 995, 1000, i)
        ELSE IF i = MidIndex THEN Candle(1100, 1200, 1095, 1100, i)
        ELSE Candle(1100, 1105, 1095, 1100, i)]

\* the quiet series with one deep low early on
BounceFeed ==
    [i \in 1..FeedLen |->
        IF i = 1 THEN [CalmFeed[i] EXCEPT !.low = 960] ELSE CalmFeed[i]]

\* a single candle: a series too short for the lookbacks
ShortFeed == SubSeq(CalmFeed, 1, 1)

\* the candle series of the model by name
Series(name) ==
    CASE name = "calm" -> CalmFeed
      [] name = "peak" -> PeakFeed
      [] name = "bounce" -> BounceFeed
      [] name = "rally" -> RallyFeed
      [] name = "slide" -> SlideFeed
      [] name = "short" -> ShortFeed
      [] OTHER -> <<>>

\* a decoded JSON payload: a list with its items, or something else
JsonList(items) == [isList |-> TRUE, items |-> items]

JsonObject == [isList |-> FALSE, items |-> <<>>]

\* None
PyNone == [isList |-> FALSE, items |-> <<>>]

\* the answers that carry no usable data
Unusable == {"timeout", "http500", "object", "empty"}

FeedNames ==
    Unusable \cup {"calm", "peak", "bounce", "rally", "slide", "short"}

\* what requests.get does for a feed: it raises ("timeout"), or answers
\* with a status and a body; "http500" has a body of candles that must not
\* be used, "object" a body that is no list
Response(name) ==
    CASE name = "timeout" ->
            [raised |-> TRUE, status |-> 0, json |-> PyNone]
      [] name = "http500" ->
            [raised |-> FALSE, status |-> 500, json |-> JsonList(PeakFeed)]
      [] name = "object" ->
            [raised |-> FALSE, status |-> 200, json |-> JsonObject]
      [] OTHER ->
            [raised |-> FALSE, status |-> 200, json |-> JsonList(Series(name))]

\* a fetch that takes the body of any answer
safe_get_AnyStatus(response) ==
    IF response.raised THEN PyNone ELSE response.json

\* safe_get: the payload of a 200, None for an exception or another status
safe_get(response) ==
    IF response.raised THEN PyNone
    ELSE IF response.status = 200 THEN response.json
    ELSE PyNone

\* get_candles: the payload if it is a list, [] otherwise
get_candles(response) ==
    LET data == safe_get(response)
    IN  IF data.isList THEN data.items ELSE <<>>

\* get_candles' answer for every feed
Feeds == [name \in FeedNames |-> get_candles(Response(name))]

Feed(name) == Feeds[name]

\* the markets of the model: a feed per symbol, in the order of SYMBOLS
Markets ==
    { <<"empty", "empty", "empty", "empty">>,
      <<"calm", "object", "calm", "calm">>,
      <<"peak", "calm", "http500", "bounce">>,
      <<"slide", "timeout", "slide", "empty">>,
      <<"rally", "short", "empty", "empty">> }

\* what the scan gets per symbol, and the first exception it runs into
ResultsOf(market) ==
    [k \in 1..Len(SYMBOLS) |->
        IF AnalyzeError(Feed(market[k])) = "none"
        THEN analyze_symbol_patterns(Feed(market[k]), SYMBOLS[k][2])
        ELSE <<>>]

ErrorOf(market) ==
    IF \E k \in 1..Len(SYMBOLS) : AnalyzeError(Feed(market[k])) # "none"
    THEN AnalyzeError(Feed(market[
             CHOOSE k \in 1..Len(SYMBOLS) :
                 /\ AnalyzeError(Feed(market[k])) # "none"
                 /\ \A j \in 1..(k - 1) :
                        AnalyzeError(Feed(market[j])) = "none"]))
    ELSE "none"

\* analyze_symbol_patterns on every feed: the exception it ends with, and
\* its results for SYMBOLS[k]
FeedErrors == [name \in FeedNames |-> AnalyzeError(Feed(name))]

FeedPatterns ==
    [name \in FeedNames |->
        [k \in 1..Len(SYMBOLS) |->
            IF FeedErrors[name] = "none"
            THEN analyze_symbol_patterns(Feed(name), SYMBOLS[k][2])
            ELSE <<>>]]

\* the scans of the model's markets
Scans ==
    [market \in Markets |->
        [res |-> ResultsOf(market), exc |-> ErrorOf(market)]]

ScanResults(market) == Scans[market].res

ScanError(market) == Scans[market].exc

---------------------------------------------------------------------------
(* bot_loop and run_once_and_report (src/main.py 180-223)                  *)

NoRun == [ran |-> FALSE, fetched |-> <<>>, sent |-> <<>>, failed |-> FALSE,
          at |-> 0, start |-> NoSignals]

\* all_signals = bull + bear
AllSignals == bull \o bear

\* one should_post call, as the history keeps it: the (symbol, label) it was
\* made for, when, what it returned, in which cycle
Check(key, t, ok) == [key |-> key, at |-> t, ok |-> ok, run |-> cycle]

\* the process right after the module is loaded and the thread is started
Init ==
    /\ now = 0
    /\ last_signals = NoSignals
    /\ pc = "start"
    /\ cycle = 0
    /\ fetched = <<>>
    /\ res = <<>>
    /\ bull = <<>>
    /\ bear = <<>>
    /\ idx = 0
    /\ sent = <<>>
    /\ checks = <<>>
    /\ exc = "none"
    /\ files = {}
    /\ tg = "none"
    /\ prev = NoRun
    /\ start_signals = NoSignals
    /\ faults = 0
    /\ series = <<>>

\* bot_loop, line 217: the start-up text, then the first cycle
Start ==
    /\ pc = "start"
    /\ sent' = <<Message("started", <<>>)>>
    /\ \E o \in TelegramOutcomes :
          /\ tg' = o
          /\ pc' = IF send_telegram_text(o) = "none" THEN "scan" ELSE "dead"
    /\ cycle' = 1
    /\ UNCHANGED <<now, last_signals, fetched, res, bull, bear, idx, checks,
                   exc, files, prev, start_signals, faults>>
    /\ UNCHANGED series

\* run_once_and_report, line 181: collect_top_patterns over SYMBOLS. An
\* exception of detect_patterns leaves the function at once.
ScanOf(markets) ==
    /\ pc = "scan"
    /\ \E market \in markets :
          /\ fetched' = market
          /\ res' = ScanResults(market)
          /\ exc' = ScanError(market)
          /\ IF ScanError(market) = "none"
             THEN /\ bull' = collect_top_patterns(ScanResults(market)).bull
                  /\ bear' = collect_top_patterns(ScanResults(market)).bear
                  /\ pc' = "report"
             ELSE /\ bull' = <<>>
                  /\ bear' = <<>>
                  /\ pc' = "failed"
    /\ idx' = 0
    /\ sent' = <<>>
    /\ checks' = <<>>
    /\ start_signals' = last_signals
    /\ UNCHANGED <<now, last_signals, cycle, files, tg, prev, faults>>
    /\ UNCHANGED series

\* the scan over the markets of the model
Scan == ScanOf(Markets)

\* a report without the empty case: a summary of nothing, no chart to loop on
Report_AlwaysSummary ==
    /\ pc = "report"
    /\ \E o \in TelegramOutcomes :
          /\ tg' = o
          /\ exc' = send_telegram_text(o)
          /\ pc' = IF send_telegram_text(o) # "none" THEN "failed"
                   ELSE IF AllSignals = <<>> THEN "sleep" ELSE "charts"
    /\ sent' = Append(sent, SummaryText(bull, bear))
    /\ idx' = IF AllSignals = <<>> THEN 0 ELSE 1
    /\ UNCHANGED <<now, last_signals, cycle, fetched, res, bull, bear,
                   checks, files, prev, start_signals, faults>>
    /\ UNCHANGED series

\* run_once_and_report, lines 182-198: the "no patterns" text and return,
\* or the summary text and on to the charts
Report ==
    /\ pc = "report"
    /\ \E o \in TelegramOutcomes :
          /\ tg' = o
          /\ exc' = send_telegram_text(o)
          /\ IF AllSignals = <<>>
             THEN /\ sent' = Append(sent, Message("no_patterns", <<>>))
                  /\ pc' = IF send_telegram_text(o) # "none"
                           THEN "failed" ELSE "sleep"
                  /\ idx' = 0
             ELSE /\ sent' = Append(sent, SummaryText(bull, bear))
                  /\ pc' = IF send_telegram_text(o) # "none"
                           THEN "failed" ELSE "charts"
                  /\ idx' = 1
    /\ UNCHANGED <<now, last_signals, cycle, fetched, res, bull, bear,
                   checks, files, prev, start_signals, faults>>
    /\ UNCHANGED series

\* where the chart loop goes after entry idx
AfterEntry == IF idx < Len(AllSignals) THEN "charts" ELSE "sleep"

\* run_once_and_report, lines 201-214: one pass of the chart loop, d seconds
\* after the pass before. should_post first; for an approved entry the
\* candles are fetched and the chart is drawn (plot_chart may raise), the
\* photo is sent and the file removed (os.remove may raise).
ChartStep(d) ==
    /\ pc = "charts"
    /\ idx \in 1..Len(AllSignals)
    /\ now' = now + d
    /\ LET sig == AllSignals[idx]
           key == SignalKey(sig.symbol, sig.desc)
           ok == ShouldPost(last_signals, key, now')
           file == ChartFile(sig.symbol, now')
       IN  /\ checks' = Append(checks, Check(<<sig.symbol, sig.desc>>, now', ok))
           /\ last_signals' = Recorded(last_signals, key, now')
           /\ IF ~ok
              THEN /\ pc' = AfterEntry
                   /\ idx' = idx + 1
                   /\ UNCHANGED <<sent, exc, files, tg, faults>>
              ELSE \/ \E o \in TelegramOutcomes :
                         /\ sent' = Append(sent, PhotoMessage(sig, now'))
                         /\ tg' = o
                         /\ exc' = send_telegram_photo(o)
                         /\ IF send_telegram_photo(o) = "none"
                            THEN /\ files' =
                                      Removed(Rendered(files, file), file)
                                 /\ pc' = AfterEntry
                                 /\ idx' = idx + 1
                            ELSE /\ files' = Rendered(files, file)
                                 /\ pc' = "failed"
                                 /\ UNCHANGED idx
                         /\ UNCHANGED faults
                   \/ /\ faults < MaxFaults
                      /\ faults' = faults + 1
                      /\ exc' = "PlotError"
                      /\ pc' = "failed"
                      /\ UNCHANGED <<idx, sent, files, tg>>
                   \/ /\ faults < MaxFaults
                      /\ faults' = faults + 1
                      /\ sent' = Append(sent, PhotoMessage(sig, now'))
                      /\ \E o \in TelegramOutcomes :
                            tg' = o /\ send_telegram_photo(o) = "none"
                      /\ files' = Rendered(files, file)
                      /\ exc' = "RemoveError"
                      /\ pc' = "failed"
                      /\ UNCHANGED idx
    /\ UNCHANGED <<cycle, fetched, res, bull, bear, prev, start_signals>>
    /\ UNCHANGED series

\* the text bot_loop sends for an exception
ErrorText(e) == Message("error", e)

\* a loop without the except clause: the exception ends it
HandleError_Uncaught ==
    /\ pc = "failed"
    /\ pc' = "dead"
    /\ UNCHANGED <<now, last_signals, cycle, fetched, res, bull, bear, idx,
                   sent, checks, exc, files, tg, prev, start_signals, faults>>
    /\ UNCHANGED series

\* bot_loop, lines 221-222: the except clause
HandleError ==
    /\ pc = "failed"
    /\ sent' = Append(sent, ErrorText(exc))
    /\ \E o \in TelegramOutcomes :
          /\ tg' = o
          /\ pc' = IF send_telegram_text(o) = "none" THEN "sleep" ELSE "dead"
    /\ UNCHANGED <<now, last_signals, cycle, fetched, res, bull, bear, idx,
                   checks, exc, files, prev, start_signals, faults>>
    /\ UNCHANGED series

\* bot_loop, line 223: time.sleep, then the next cycle
SleepUpTo(cycles) ==
    /\ pc = "sleep"
    /\ cycle < cycles
    /\ \E late \in Lateness : now' = now + RUN_EVERY_SECONDS + late
    /\ prev' = [ran |-> TRUE, fetched |-> fetched, sent |-> sent,
                failed |-> exc # "none", at |-> now,
                start |-> start_signals]
    /\ pc' = "scan"
    /\ cycle' = cycle + 1
    /\ tg' = "none"
    /\ UNCHANGED <<last_signals, fetched, res, bull, bear, idx, sent, checks,
                   exc, files, start_signals, faults>>
    /\ UNCHANGED series

\* the sleep within the cycles of the model
Sleep == SleepUpTo(MaxCycles)

Next == Start \/ Scan \/ Report \/ ChartStep(0) \/ HandleError \/ Sleep

Spec == Init /\ [][Next]_vars

\* the loop's thread is always scheduled again
FairSpec == Spec /\ WF_vars(Next)

---------------------------------------------------------------------------
(* The chart loop on any selection: run_once_and_report from line 201 on,  *)
(* entered with a list all_signals that need not come from the detectors.  *)

\* entries of a selection: two labels of one symbol, one label of two symbols
StubEntries ==
    { [symbol |-> "BTC", score |-> 75, desc |-> <<"BTC", "Double Top">>],
      [symbol |-> "BTC", score |-> 85, desc |-> <<"BTC", "Head & Shoulders">>],
      [symbol |-> "ETH", score |-> 75, desc |-> <<"ETH", "Double Top">>] }

\* entries of one selection, at most
MaxSel == 2

\* should_post calls in one run of the chart loop model
MaxChecks == 3

StubSelections == UNION {[1..n -> StubEntries] : n \in 1..MaxSel}

\* seconds between two passes of the chart loop
Delays == {0, 1, SILENCE_SECONDS - 1, SILENCE_SECONDS + 1}

InitChart ==
    /\ now = 0
    /\ last_signals = NoSignals
    /\ pc = "charts"
    /\ cycle = 1
    /\ fetched = <<>>
    /\ res = <<>>
    /\ \E sel \in StubSelections :
          /\ bull = SubSeq(sel, 1, 1)
          /\ bear = Tail(sel)
    /\ idx = 1
    /\ sent = <<>>
    /\ checks = <<>>
    /\ exc = "none"
    /\ files = {}
    /\ tg = "none"
    /\ prev = NoRun
    /\ start_signals = NoSignals
    /\ faults = MaxFaults      \* plot_chart and os.remove do not raise here
    /\ series = <<>>

\* one pass of the chart loop, some time after the pass before
ChartPass ==
    /\ Len(checks) < MaxChecks
    /\ \E d \in Delays : ChartStep(d)

\* the next cycle's selection
Reselect ==
    /\ pc = "sleep"
    /\ Len(checks) < MaxChecks
    /\ \E sel \in StubSelections :
          /\ bull' = SubSeq(sel, 1, 1)
          /\ bear' = Tail(sel)
    /\ idx' = 1
    /\ pc' = "charts"
    /\ cycle' = cycle + 1
    /\ sent' = <<>>
    /\ exc' = "none"
    /\ start_signals' = last_signals
    /\ UNCHANGED <<now, last_signals, fetched, res, checks, files, tg, prev,
                   faults>>
    /\ UNCHANGED series

ChartNext == ChartPass \/ Reselect

ChartSpec == InitChart /\ [][ChartNext]_vars

---------------------------------------------------------------------------
(* collect_top_patterns on any results of analyze_symbol_patterns          *)

\* raw signals of one scan, at most
MaxRaw == 6

\* a raw signal: a weak or a strong bullish one, or one that is not bullish
StubSignals == {"weak", "strong", "other"}

\* the j-th signal of a symbol is labelled "<short>: P<j>"
StubLabels == <<"P1", "P2", "P3", "P4", "P5", "P6", "P7", "P8">>

\* the triple of the j-th signal of symbol k; what is not bullish is bearish,
\* and of a direction of its own for the last symbol
StubTriple(k, j, signal) ==
    << IF signal = "other"
       THEN (IF k = Len(SYMBOLS) THEN "neutral" ELSE "bearish")
       ELSE "bullish",
       IF signal = "weak" THEN 65 ELSE IF signal = "strong" THEN 85 ELSE 75,
       <<SYMBOLS[k][2], StubLabels[j]>> >>

\* signals of the symbols before symbol k
RECURSIVE Before(_, _)
Before(count, k) == IF k = 1 THEN 0 ELSE count[k - 1] + Before(count, k - 1)

\* the results per symbol: count[k] signals for symbol k, taken in order
\* from the flat list of signals
StubScan(count, flat) ==
    [k \in 1..Len(SYMBOLS) |->
        [j \in 1..count[k] |-> StubTriple(k, j, flat[Before(count, k) + j])]]

InitRank ==
    /\ now = 0
    /\ last_signals = NoSignals
    /\ pc = "rank"
    /\ cycle = 0
    /\ fetched = <<>>
    /\ \E count \in [1..Len(SYMBOLS) -> 0..MaxRaw] :
          /\ Before(count, Len(SYMBOLS) + 1) <= MaxRaw
          /\ \E flat \in [1..Before(count, Len(SYMBOLS) + 1) -> StubSignals] :
                res = StubScan(count, flat)
    /\ bull = <<>>
    /\ bear = <<>>
    /\ idx = 0
    /\ sent = <<>>
    /\ checks = <<>>
    /\ exc = "none"
    /\ files = {}
    /\ tg = "none"
    /\ prev = NoRun
    /\ start_signals = NoSignals
    /\ faults = 0
    /\ series = <<>>

\* collect_top_patterns returns
Collect ==
    /\ pc = "rank"
    /\ bull' = collect_top_patterns(res).bull
    /\ bear' = collect_top_patterns(res).bear
    /\ pc' = "ranked"
    /\ UNCHANGED <<now, last_signals, cycle, fetched, res, idx, sent, checks,
                   exc, files, tg, prev, start_signals, faults>>
    /\ UNCHANGED series

RankSpec == InitRank /\ [][Collect]_vars

---------------------------------------------------------------------------
(* detect_patterns and collect_top_patterns on generated candle series     *)

\* The series of the harness. Closes: old up to the last ten, then 1000
\* with one close at swing, then last. Highs: 1010, with left, head, right
\* at mid - 2, mid, mid + 2 and h2, h1 on the last two bars. Lows: 980, with
\* dip on the first bar and l2, l1 on the last two.
Shapes ==
    [len : {FeedLen, FeedLen + 1},
     old : {900, 1000, 1100},
     swing : {1000, 1020, 1030},
     last : {960, 1000, 1010, 1040},
     left : {1010, 1100}, head : {1010, 1100}, right : {1010, 1100},
     dip : {900, 980},
     h2 : {1010, 1015}, h1 : {1010, 1015},
     l2 : {980, 985}, l1 : {980, 985}]

BuildSeries(k) ==
    LET L == k.len
        m == (L \div 2) + 1
    IN  [i \in 1..L |->
            Candle(1000,
                   IF i = m - 2 THEN k.left
                   ELSE IF i = m THEN k.head
                   ELSE IF i = m + 2 THEN k.right
                   ELSE IF i = L - 1 THEN k.h2
                   ELSE IF i = L THEN k.h1
                   ELSE 1010,
                   IF i = 1 THEN k.dip
                   ELSE IF i = L - 1 THEN k.l2
                   ELSE IF i = L THEN k.l1
                   ELSE 980,
                   IF i <= L - 10 THEN k.old
                   ELSE IF i = L - 4 THEN k.swing
                   ELSE IF i = L THEN k.last
                   ELSE 1000,
                   i)]

\* which symbols the candle source answers with the series (the others get
\* an empty list)
Answered ==
    { <<TRUE, TRUE, TRUE, TRUE>>,
      <<TRUE, FALSE, FALSE, FALSE>>,
      <<FALSE, TRUE, FALSE, TRUE>> }

InitDetect ==
    /\ now = 0
    /\ last_signals = NoSignals
    /\ pc = "detect"
    /\ cycle = 1
    /\ fetched = <<>>
    /\ res = <<>>
    /\ bull = <<>>
    /\ bear = <<>>
    /\ idx = 0
    /\ sent = <<>>
    /\ checks = <<>>
    /\ exc = "none"
    /\ files = {}
    /\ tg = "none"
    /\ prev = NoRun
    /\ start_signals = NoSignals
    /\ faults = 0
    /\ \E k \in Shapes : series = BuildSeries(k)

\* collect_top_patterns over SYMBOLS, the answered symbols getting candles
Detect ==
    /\ pc = "detect"
    /\ \E given \in Answered :
          /\ fetched' = [k \in 1..Len(SYMBOLS) |->
                            IF given[k] THEN "series" ELSE "empty"]
          /\ exc' = AnalyzeError(series)
          /\ res' = [k \in 1..Len(SYMBOLS) |->
                        IF given[k] /\ exc' = "none"
                        THEN analyze_symbol_patterns(series, SYMBOLS[k][2])
                        ELSE <<>>]
          /\ bull' = IF exc' = "none"
                     THEN collect_top_patterns(res').bull ELSE <<>>
          /\ bear' = IF exc' = "none"
                     THEN collect_top_patterns(res').bear ELSE <<>>
          /\ pc' = IF exc' = "none" THEN "detected" ELSE "failed"
    /\ UNCHANGED <<now, last_signals, cycle, idx, sent, checks, files, tg,
                   prev, start_signals, faults, series>>

DetectSpec == InitDetect /\ [][Detect]_vars

---------------------------------------------------------------------------
(* The loop over more periods than a cooldown lasts, on one market that    *)
(* selects the same signals in every cycle                                 *)

\* cycles of the loop
MaxPeriods == 5

\* BTC shows a Head & Shoulders and SOL a Double Bottom, in every scan
SteadyMarkets == { <<"peak", "calm", "http500", "bounce">> }

SteadyScan == ScanOf(SteadyMarkets)

PeriodSleep == SleepUpTo(MaxPeriods)

PeriodNext ==
    Start \/ SteadyScan \/ Report \/ ChartStep(0) \/ HandleError
        \/ PeriodSleep

PeriodSpec == Init /\ [][PeriodNext]_vars

---------------------------------------------------------------------------
(* Properties of the silence filter, checked on ChartSpec                  *)

\* the approvals of key before the j-th check
ApprovalsBefore(j, key) ==
    {i \in 1..(j - 1) : checks[i].key = key /\ checks[i].ok}

\* the latest of them
LastApproval(j, key) ==
    CHOOSE i \in ApprovalsBefore(j, key) :
        \A m \in ApprovalsBefore(j, key) : m <= i

\* C1: under the non-decreasing clock, two calls of should_post that approve
\* the same (symbol, label) are at least SILENCE_SECONDS apart, and a call is
\* suppressed only by an approval of its own key less than SILENCE_SECONDS
\* before it: approvals of one key never count against another.
C1_OncePerWindow ==
    /\ \A i, j \in 1..Len(checks) :
          (i < j /\ checks[i].key = checks[j].key
                 /\ checks[i].ok /\ checks[j].ok)
              => checks[j].at - checks[i].at >= SILENCE_SECONDS
    /\ \A j \in 1..Len(checks) :
          ~checks[j].ok =>
              \E i \in ApprovalsBefore(j, checks[j].key) :
                  checks[j].at - checks[i].at < SILENCE_SECONDS

\* a key approved twice, another key approved in between
C1_Witness ==
    \E i, m, j \in 1..Len(checks) :
        /\ i < m /\ m < j
        /\ checks[i].key = checks[j].key /\ checks[m].key # checks[i].key
        /\ checks[i].ok /\ checks[m].ok /\ checks[j].ok

\* C2: with T the time of the latest approval of K, a check of K before
\* T + SILENCE_SECONDS is suppressed and a check of K after T +
\* SILENCE_SECONDS is approved; a key never approved (no timestamp recorded)
\* is approved.
C2_CooldownWindow ==
    \A j \in 1..Len(checks) :
        IF ApprovalsBefore(j, checks[j].key) = {}
        THEN checks[j].ok
        ELSE LET T == checks[LastApproval(j, checks[j].key)].at
             IN  /\ checks[j].at < T + SILENCE_SECONDS => ~checks[j].ok
                 /\ checks[j].at > T + SILENCE_SECONDS => checks[j].ok

\* a key approved, suppressed inside the window, approved again after it
C2_Witness ==
    \E i, m, j \in 1..Len(checks) :
        /\ i < m /\ m < j
        /\ checks[i].key = checks[m].key /\ checks[m].key = checks[j].key
        /\ checks[i].ok /\ ~checks[m].ok /\ checks[j].ok
        /\ checks[m].at < checks[i].at + SILENCE_SECONDS
        /\ checks[j].at > checks[i].at + SILENCE_SECONDS

\* C3: a should_post call that suppresses leaves last_signals as it was; a
\* call that approves sets the entry of its own key to the time of the call
\* and changes no other entry.
C3_FilterFrame ==
    [][Len(checks') = Len(checks) + 1 =>
          LET c == checks'[Len(checks')]
          IN  IF c.ok
              THEN /\ DOMAIN last_signals' = DOMAIN last_signals \cup {c.key}
                   /\ last_signals'[c.key] = now'
                   /\ c.at = now'
                   /\ \A k \in DOMAIN last_signals \ {c.key} :
                          last_signals'[k] = last_signals[k]
              ELSE last_signals' = last_signals]_vars

\* a suppressed call on a map that holds another key too
C3_Witness ==
    /\ Len(checks) > 0
    /\ ~checks[Len(checks)].ok
    /\ Cardinality(DOMAIN last_signals) >= 2
    /\ last_signals[checks[Len(checks)].key] < now

\* two entries of one key, one right after the other in the chart loop of
\* one cycle, the second less than SILENCE_SECONDS after the first
SameKeyPair(j) ==
    /\ checks[j].key = checks[j + 1].key
    /\ checks[j].run = checks[j + 1].run
    /\ checks[j + 1].at - checks[j].at < SILENCE_SECONDS

\* C4 as stated: of two such entries the first is approved and the second
\* suppressed.
C4_Original ==
    \A j \in 1..(Len(checks) - 1) :
        SameKeyPair(j) => (checks[j].ok /\ ~checks[j + 1].ok)

\* C4, amended: of two such entries, if the first is approved the second is
\* suppressed, by the entry the first one wrote.
C4_SecondSuppressed ==
    \A j \in 1..(Len(checks) - 1) :
        (SameKeyPair(j) /\ checks[j].ok) =>
            /\ ~checks[j + 1].ok
            /\ (j + 1 = Len(checks) =>
                    last_signals[checks[j].key] = checks[j].at)

\* a duplicate suppressed right after the first entry was approved
C4_Witness ==
    \E j \in 1..(Len(checks) - 1) :
        SameKeyPair(j) /\ checks[j].ok /\ ~checks[j + 1].ok

---------------------------------------------------------------------------
(* Properties of collect_top_patterns, checked on RankSpec                 *)

\* the raw signals of the scan: <<k, j>> is the j-th signal of SYMBOLS[k]
RawSignals ==
    {p \in (1..Len(SYMBOLS)) \X (1..Len(StubLabels)) : p[2] <= Len(res[p[1]])}

RawOf(p) == res[p[1]][p[2]]

BullRaw == {p \in RawSignals : RawOf(p)[1] = "bullish"}

BearRaw == RawSignals \ BullRaw

\* the entry collect_top_patterns makes of a raw signal
EntryOf(p) ==
    [symbol |-> SYMBOLS[p[1]][2], score |-> RawOf(p)[2], desc |-> RawOf(p)[3]]

\* C5: collect_top_patterns returns at most 5 bullish and at most 5 bearish
\* entries; every bullish entry comes from a raw signal of direction
\* "bullish", every bearish entry from a raw signal of any other direction.
C5_AtMostFive ==
    pc = "ranked" =>
        /\ Len(bull) <= 5
        /\ Len(bear) <= 5
        /\ \A i \in 1..Len(bull) : \E p \in BullRaw : bull[i] = EntryOf(p)
        /\ \A i \in 1..Len(bear) : \E p \in BearRaw : bear[i] = EntryOf(p)

\* more than 5 signals of one direction, cut to 5
C5_Witness ==
    /\ pc = "ranked"
    /\ Cardinality(BullRaw) > 5
    /\ Len(bull) = 5

\* p was discovered before q: symbol order, then detector order
Earlier(p, q) == p[1] < q[1] \/ (p[1] = q[1] /\ p[2] < q[2])

\* p ranks ahead of q: the higher score, or the same score found earlier
Ahead(p, q) ==
    \/ RawOf(p)[2] > RawOf(q)[2]
    \/ RawOf(p)[2] = RawOf(q)[2] /\ Earlier(p, q)

\* the place of p among the raw signals of its direction
Place(p, raw) == Cardinality({q \in raw : Ahead(q, p)}) + 1

\* out holds the first min(5, n) of raw by place, each at its place
RankedFrom(out, raw) ==
    /\ Len(out) = IF Cardinality(raw) < 5 THEN Cardinality(raw) ELSE 5
    /\ \A p \in raw : Place(p, raw) <= 5 => out[Place(p, raw)] = EntryOf(p)
    /\ \A i \in 1..(Len(out) - 1) : out[i].score >= out[i + 1].score

\* C6: each list of collect_top_patterns is in descending score order and
\* holds the min(5, n) highest-scored entries of its direction; entries of
\* equal score keep discovery order (symbol order in SYMBOLS, then detector
\* order), which also decides who survives the cut to 5.
C6_RankedByScore ==
    pc = "ranked" => RankedFrom(bull, BullRaw) /\ RankedFrom(bear, BearRaw)

\* the sort moved a later signal ahead of an earlier one, and a tie at the
\* cut kept the earlier signal and dropped the later
C6_Witness ==
    /\ pc = "ranked"
    /\ \E p, q \in BullRaw : Earlier(p, q) /\ Place(q, BullRaw) < Place(p, BullRaw)
    /\ \E p, q \in BullRaw :
          /\ RawOf(p)[2] = RawOf(q)[2]
          /\ Place(p, BullRaw) <= 5
          /\ Place(q, BullRaw) > 5

---------------------------------------------------------------------------
(* Properties of one cycle and of the loop, checked on Spec and FairSpec   *)

\* the places of the texts of one kind in a cycle's notifications
Sent(log, kind) == {i \in 1..Len(log) : log[i].kind = kind}

\* the lines a summary section has to carry for a list of selected entries
Lists(section, entries) ==
    /\ Len(section) = Len(entries)
    /\ \A i \in 1..Len(entries) :
          section[i] = <<entries[i].symbol, entries[i].desc, entries[i].score>>

\* C7: in a cycle whose selection is not empty, once the report is out,
\* exactly one summary text has been sent, it comes before every chart photo
\* of the cycle, and it lists every selected signal, the bullish section
\* first and then the bearish one, whatever the silence filter suppresses.
C7_OneSummaryFirst ==
    (pc \in {"charts", "failed", "sleep"} /\ AllSignals # <<>>) =>
        /\ Cardinality(Sent(sent, "summary")) = 1
        /\ sent[1].kind = "summary"
        /\ \A i \in Sent(sent, "photo") : i > 1
        /\ Lists(sent[1].body.bullish, bull)
        /\ Lists(sent[1].body.bearish, bear)

\* a finished cycle with signals of both directions, one silenced
C7_Witness ==
    /\ pc = "sleep"
    /\ exc = "none"
    /\ bull # <<>>
    /\ bear # <<>>
    /\ \E j \in 1..Len(checks) : ~checks[j].ok
    /\ Cardinality(Sent(sent, "summary")) = 1

\* two runs that returned, one right after the other: the same candles, a
\* selection that is not empty, the second less than SILENCE_SECONDS after
\* the first
TwoRuns ==
    /\ pc = "sleep"
    /\ prev.ran
    /\ ~prev.failed
    /\ exc = "none"
    /\ fetched = prev.fetched
    /\ AllSignals # <<>>
    /\ now - prev.at < SILENCE_SECONDS

\* summaries in both runs, a photo per selected signal in the first, none in
\* the second
OnlyFirstPosts ==
    /\ Sent(prev.sent, "summary") # {}
    /\ Sent(sent, "summary") # {}
    /\ Cardinality(Sent(prev.sent, "photo")) = Len(AllSignals)
    /\ Sent(sent, "photo") = {}

\* no selected signal was inside its cooldown when the first run checked it
FirstRunClear ==
    \A i \in 1..Len(AllSignals) :
        LET key == <<AllSignals[i].symbol, AllSignals[i].desc>>
        IN  key \in DOMAIN prev.start =>
                prev.at - prev.start[key] >= SILENCE_SECONDS

NothingFound ==
    /\ fetched # <<>>
    /\ \A k \in 1..Len(SYMBOLS) :
          /\ FeedErrors[fetched[k]] = "none"
          /\ FeedPatterns[fetched[k]][k] = <<>>

\* C9: a cycle in which the candle source returns empty for every symbol, or
\* no detector fires for any symbol, sends exactly one "no patterns" text, no
\* summary and no photo, and leaves last_signals as the cycle found it.
C9_NoPatterns ==
    (pc = "sleep" /\ NothingFound) =>
        /\ Len(sent) = 1
        /\ sent[1].kind = "no_patterns"
        /\ Sent(sent, "summary") = {}
        /\ Sent(sent, "photo") = {}
        /\ last_signals = start_signals

\* such a cycle after one that filled the map
C9_Witness ==
    /\ pc = "sleep"
    /\ NothingFound
    /\ \A k \in 1..Len(SYMBOLS) : fetched[k] = "empty"
    /\ last_signals # NoSignals
    /\ Len(sent) = 1

\* C10: a failure of a cycle's body is caught by bot_loop: the next step
\* sends an error text that carries the exception and goes to sleep, and
\* after a failed cycle the next cycle starts; no failure ends the loop.
C10_LoopSurvives ==
    /\ [][pc = "failed" =>
             /\ pc' = "sleep"
             /\ sent' = Append(sent, Message("error", exc))
             /\ exc # "none"]_vars
    /\ (pc = "failed" /\ cycle < MaxCycles) ~> (pc = "scan" /\ prev.failed)

\* a cycle starting after a failed one
C10_Witness ==
    /\ pc = "scan"
    /\ prev.ran
    /\ prev.failed
    /\ \E i \in 1..Len(prev.sent) : prev.sent[i].kind = "error"

---------------------------------------------------------------------------
(* Properties of the scan, checked on Spec                                 *)

\* the exceptions detect_patterns can raise
DetectErrors == {"IndexError", "ZeroDivisionError", "ValueError"}

\* every symbol but SYMBOLS[k] has candles the detectors run through
OthersFine(k) ==
    \A j \in 1..Len(SYMBOLS) \ {k} :
        FeedErrors[fetched[j]] = "none"

\* the entries of the symbols from SYMBOLS[j] on, SYMBOLS[k] left out
RECURSIVE EntriesWithout(_, _, _)
EntriesWithout(j, k, wantBull) ==
    IF j > Len(SYMBOLS) THEN <<>>
    ELSE (IF j = k THEN <<>>
          ELSE EntriesOf(SYMBOLS[j][2], FeedPatterns[fetched[j]][j],
                         wantBull))
         \o EntriesWithout(j + 1, k, wantBull)

\* C11: a symbol whose fetch gives no usable data (request error, status
\* other than 200, a payload that is no list, an empty list) yields no
\* signal and does not abort the cycle; the lists selected and reported are
\* those of the configuration without that symbol.
C11_UnusableFetchSkipped ==
    \A k \in 1..Len(SYMBOLS) :
        (fetched # <<>> /\ fetched[k] \in Unusable /\ OthersFine(k)) =>
            /\ res[k] = <<>>
            /\ exc \notin DetectErrors
            /\ bull = TopPatterns(EntriesWithout(1, k, TRUE))
            /\ bear = TopPatterns(EntriesWithout(1, k, FALSE))
            /\ (pc \in {"charts", "sleep"} /\ AllSignals # <<>>) =>
                   /\ Lists(sent[1].body.bullish, bull)
                   /\ Lists(sent[1].body.bearish, bear)

\* a finished cycle that reported the signals of the other symbols, one
\* symbol answered with a status other than 200 and a body of candles
C11_Witness ==
    /\ pc = "sleep"
    /\ exc = "none"
    /\ \E k \in 1..Len(SYMBOLS) :
          /\ fetched[k] = "http500"
          /\ OthersFine(k)
          /\ \A i \in 1..Len(AllSignals) : AllSignals[i].symbol # SYMBOLS[k][2]
    /\ bull # <<>>
    /\ bear # <<>>

\* C12 as stated: a series that is not empty and shorter than 22 candles
\* does not make the cycle fail: with every other symbol's candles fine, no
\* exception of detect_patterns leaves the scan.
C12_ShortSeriesGuarded ==
    \A k \in 1..Len(SYMBOLS) :
        (/\ fetched # <<>>
         /\ Len(Feed(fetched[k])) \in 1..21
         /\ OthersFine(k)) => exc \notin DetectErrors

---------------------------------------------------------------------------
(* Properties of detect_patterns, checked on DetectSpec                    *)

\* the detector table, on a series cs of L candles counted from 1
\* (mid = L // 2 is the candle number mid + 1)
HighestHigh(cs) ==
    CHOOSE x \in {cs[i].high : i \in 1..Len(cs)} :
        \A i \in 1..Len(cs) : cs[i].high <= x

LowestLow(cs) ==
    CHOOSE x \in {cs[i].low : i \in 1..Len(cs)} :
        \A i \in 1..Len(cs) : x <= cs[i].low

HighestClose(cs, a, b) ==
    CHOOSE x \in {cs[i].close : i \in a..b} : \A i \in a..b : cs[i].close <= x

LowestClose(cs, a, b) ==
    CHOOSE x \in {cs[i].close : i \in a..b} : \A i \in a..b : x <= cs[i].close

RECURSIVE CloseSum(_, _, _)
CloseSum(cs, a, b) ==
    IF a > b THEN 0 ELSE cs[a].close + CloseSum(cs, a + 1, b)

\* the rows of the table: name, direction, score (in hundredths), condition
TableRows(cs) ==
    LET L == Len(cs)
        m == (L \div 2) + 1
        tight == 100 * HighestClose(cs, L - 9, L)
                     < 102 * LowestClose(cs, L - 9, L)
        above == cs[L].close * (L - 10) > CloseSum(cs, 1, L - 10)
    IN  << <<"Double Top", "bearish", 75,
             100 * cs[L].close < 97 * HighestHigh(cs)>>,
           <<"Double Bottom", "bullish", 75,
             100 * cs[L].close > 103 * LowestLow(cs)>>,
           <<"Head & Shoulders", "bearish", 85,
             cs[m].high > cs[m - 2].high /\ cs[m].high > cs[m + 2].high>>,
           <<"Cup & Handle", "bullish", 80,
             /\ cs[L].close * L > CloseSum(cs, 1, L)
             /\ cs[L].close > HighestClose(cs, 1, L - 20)>>,
           <<"Falling Wedge", "bullish", 70,
             cs[L].high < cs[L - 1].high /\ cs[L].low > cs[L - 1].low>>,
           <<"Rising Wedge", "bearish", 70,
             cs[L].high > cs[L - 1].high /\ cs[L].low < cs[L - 1].low>>,
           <<"Bull Flag", "bullish", 65, tight /\ above>>,
           <<"Bear Flag", "bearish", 65, tight /\ ~above>> >>

\* the signals of the rows whose condition holds, from row n on
RECURSIVE TableSignals(_, _, _)
TableSignals(rows, n, short) ==
    IF n > Len(rows) THEN <<>>
    ELSE (IF rows[n][4]
          THEN << <<rows[n][2], rows[n][3], <<short, rows[n][1]>> >> >>
          ELSE <<>>) \o TableSignals(rows, n + 1, short)

\* every candle has positive prices
PositivePrices(cs) ==
    \A i \in 1..Len(cs) :
        cs[i].open > 0 /\ cs[i].high > 0 /\ cs[i].low > 0 /\ cs[i].close > 0

\* C13: on a series of at least 22 candles with positive prices
\* detect_patterns raises nothing and returns exactly the signals of the
\* table rows whose condition holds, with the row's direction and score, in
\* the order of the table; the result is a function of the series alone,
\* and the series is left as it was.
C13_TableSignals ==
    /\ [](pc # "detect" /\ Len(series) >= 22 /\ PositivePrices(series) =>
             /\ exc = "none"
             /\ \A k \in 1..Len(SYMBOLS) :
                   fetched[k] = "series" =>
                       res[k] = TableSignals(TableRows(series), 1,
                                             SYMBOLS[k][2]))
    /\ [][series' = series]_vars

\* a series on which several detectors fire and others do not
C13_Witness ==
    /\ pc = "detected"
    /\ Len(series) >= 22
    /\ Len(res[1]) >= 4
    /\ \E i \in 1..Len(res[1]) : res[1][i][3][2] = "Bear Flag"
    /\ \A i \in 1..Len(res[1]) : res[1][i][3][2] # "Head & Shoulders"

\* C14: Double Top and Double Bottom are not exclusive: on a series whose
\* last close is below 97% of the highest high and above 103% of the lowest
\* low, one call of detect_patterns returns the bearish Double Top and the
\* bullish Double Bottom of the symbol, and such series exist.
C14_BothDoubles ==
    pc = "detected" =>
        \A k \in 1..Len(SYMBOLS) :
            (/\ fetched[k] = "series"
             /\ 100 * series[Len(series)].close < 97 * HighestHigh(series)
             /\ 100 * series[Len(series)].close > 103 * LowestLow(series)) =>
                /\ Len(res[k]) >= 2
                /\ res[k][1] = <<"bearish", 75, <<SYMBOLS[k][2], "Double Top">> >>
                /\ res[k][2] = <<"bullish", 75, <<SYMBOLS[k][2], "Double Bottom">> >>

\* a call that returned both
C14_Witness ==
    /\ pc = "detected"
    /\ fetched[1] = "series"
    /\ \E i, j \in 1..Len(res[1]) :
          /\ res[1][i] = <<"bearish", 75, <<SYMBOLS[1][2], "Double Top">> >>
          /\ res[1][j] = <<"bullish", 75, <<SYMBOLS[1][2], "Double Bottom">> >>

\* C19: the selected list, bullish entries then bearish ones, holds no two
\* entries with the same (symbol, label): detect_patterns gives a symbol
\* each label at most once and the short codes of SYMBOLS are distinct.
C19_NoDuplicateKeys ==
    pc = "detected" =>
        /\ \A k \in 1..Len(SYMBOLS) :
              \A i, j \in 1..Len(res[k]) :
                  i # j => res[k][i][3][2] # res[k][j][3][2]
        /\ \A i, j \in 1..Len(AllSignals) :
              i # j => <<AllSignals[i].symbol, AllSignals[i].desc>>
                           # <<AllSignals[j].symbol, AllSignals[j].desc>>

\* full lists in which one pattern shows under several symbols
C19_Witness ==
    /\ pc = "detected"
    /\ Len(bull) = 5
    /\ Len(bear) = 5
    /\ \E i, j \in 1..Len(AllSignals) :
          /\ AllSignals[i].symbol # AllSignals[j].symbol
          /\ AllSignals[i].desc[2] = AllSignals[j].desc[2]

---------------------------------------------------------------------------
(* C15                                                                     *)

\* the photo sends of this cycle so far
PhotosSent == Sent(sent, "photo")

\* the approvals of this cycle so far
Approved == {j \in 1..Len(checks) : checks[j].ok}

\* the step is a Telegram request that failed
FailedSend == tg' = "error" /\ Len(sent') = Len(sent) + 1

\* the step goes on as after a successful request: from the start-up text to
\* the first scan, from the error text to the sleep, from the summary (or
\* the "no patterns" text) to the charts (or the sleep), from a photo to the
\* next entry with the approval of this one still recorded
GoesOn ==
    \/ pc = "start" /\ pc' = "scan"
    \/ pc = "failed" /\ pc' = "sleep" /\ exc' = exc
    \/ /\ pc = "report"
       /\ exc' = "none"
       /\ pc' = IF AllSignals = <<>> THEN "sleep" ELSE "charts"
       /\ idx' = IF AllSignals = <<>> THEN 0 ELSE 1
       /\ last_signals' = last_signals
    \/ /\ pc = "charts"
       /\ exc' = "none"
       /\ pc' = AfterEntry
       /\ idx' = idx + 1
       /\ LET sig == AllSignals[idx]
              key == SignalKey(sig.symbol, sig.desc)
          IN  /\ key \in DOMAIN last_signals'
              /\ last_signals'[key] = now'
              /\ checks'[Len(checks')].ok
              /\ sent'[Len(sent')] = PhotoMessage(sig, now')

\* C15: a Telegram request that fails (start-up text, summary, "no patterns"
\* text, chart photo, error text) is never escalated. No exception of a
\* sender is ever pending and the loop never dies; the step of a failed
\* request goes on as after a successful one, unless the removal of the
\* chart file fails in the same step; the approval of the signal whose
\* photo failed stays recorded; every message is requested once (at most
\* one summary and one photo per approval in a cycle); and a cycle that
\* reaches its sleep without an exception has checked every selected
\* signal, whatever the outcomes of its requests were.
C15_SendFailureSwallowed ==
    /\ [](/\ exc \in {"none", "PlotError", "RemoveError"} \cup DetectErrors
          /\ pc # "dead"
          /\ Cardinality(PhotosSent) <= Cardinality(Approved)
          /\ Cardinality(Sent(sent, "summary")) <= 1
          /\ (pc = "sleep" /\ exc = "none" /\ cycle > 0
                  => Len(checks) = Len(AllSignals)))
    /\ [][FailedSend => (GoesOn \/ exc' = "RemoveError")]_vars

\* a later cycle with several selected signals has checked them all and is
\* at its sleep, although the photo of its last approval failed at Telegram
C15_Witness ==
    /\ tg = "error"
    /\ pc = "sleep"
    /\ exc = "none"
    /\ cycle > 1
    /\ Len(AllSignals) > 1
    /\ Len(checks) = Len(AllSignals)
    /\ PhotosSent # {}
    /\ sent[Len(sent)].kind = "photo"
    /\ checks[Len(checks)].ok
    /\ <<checks[Len(checks)].key[1], checks[Len(checks)].key[2]>>
           \in DOMAIN last_signals

---------------------------------------------------------------------------
(* C16                                                                     *)

\* the chart files this cycle has rendered so far: one per approval, named
\* after the symbol and the second of the approval
RenderedNow == {ChartFile(checks[j].key[1], checks[j].at) : j \in Approved}

\* C16: every chart file rendered in a cycle is removed after its photo
\* request, whether Telegram took the photo or not. While the chart loop
\* runs without an exception, and at the sleep of a cycle that completed,
\* none of the files the cycle rendered is on disk.
C16_ChartsRemoved ==
    (pc \in {"charts", "sleep"} /\ exc = "none")
        => RenderedNow \cap files = {}

\* a completed cycle rendered charts and its last photo failed at Telegram
C16_Witness ==
    /\ pc = "sleep"
    /\ exc = "none"
    /\ RenderedNow # {}
    /\ tg = "error"
    /\ sent[Len(sent)].kind = "photo"

---------------------------------------------------------------------------
(* C17                                                                     *)

\* the step is a should_post call that returned True
ApprovalStep ==
    /\ pc = "charts"
    /\ Len(checks') = Len(checks) + 1
    /\ checks'[Len(checks')].ok

\* C17: over any sequence of cycles, failed ones included, the silence map
\* only grows. No step removes a key; the clock never goes back and no
\* step lowers the timestamp of a key; and the map changes only in a step
\* in which should_post approves, which writes the key it approved, with
\* the time of the call, and nothing else.
C17_MapOnlyGrows ==
    [][/\ now' >= now
       /\ DOMAIN last_signals \subseteq DOMAIN last_signals'
       /\ \A k \in DOMAIN last_signals : last_signals'[k] >= last_signals[k]
       /\ last_signals' # last_signals =>
              /\ ApprovalStep
              /\ LET key == SignalKey(checks'[Len(checks')].key[1],
                                      checks'[Len(checks')].key[2])
                 IN  /\ key \in DOMAIN last_signals'
                     /\ last_signals'[key] = now'
                     /\ \A k \in DOMAIN last_signals' \ {key} :
                            k \in DOMAIN last_signals
                                /\ last_signals'[k] = last_signals[k]]_vars

\* after a failed cycle the map holds several keys, one of them approved
\* again with a later timestamp than in the cycle before
C17_Witness ==
    /\ prev.ran
    /\ prev.failed
    /\ Cardinality(DOMAIN last_signals) > 1
    /\ \E k \in DOMAIN start_signals :
           /\ k \in DOMAIN last_signals
           /\ last_signals[k] > start_signals[k]

---------------------------------------------------------------------------
(* C20                                                                     *)

\* The cycle that runs at time t: the clock starts at 0 with the first
\* cycle, every sleep adds the period and a lateness far below it, and the
\* cycles themselves take no time.
CycleAt(t) == (t \div RUN_EVERY_SECONDS) + 1

\* the key of check j of this cycle
KeyOf(j) == SignalKey(checks[j].key[1], checks[j].key[2])

\* C20: with a sleep of 2 hours after each cycle and a cooldown of 6 hours,
\* a key that is selected and checked in every cycle is suppressed in at
\* most two consecutive cycles after an approval. Every cycle scans the
\* same market and so selects the same keys; a suppressed check is at most
\* two cycles after the cycle that approved its key; and a key whose last
\* approval before this cycle is three or more cycles back is approved
\* when it is checked.
C20_ApprovedByThirdCycle ==
    /\ cycle >= 1 => CycleAt(now) = cycle
    /\ (cycle >= 1 /\ pc # "scan") => fetched \in SteadyMarkets
    /\ \A j \in 1..Len(checks) :
           /\ ~checks[j].ok =>
                  /\ KeyOf(j) \in DOMAIN last_signals
                  /\ checks[j].run - CycleAt(last_signals[KeyOf(j)])
                         \in {0, 1, 2}
           /\ (/\ KeyOf(j) \in DOMAIN start_signals
               /\ checks[j].run - CycleAt(start_signals[KeyOf(j)]) >= 3)
                  => checks[j].ok

\* the key of a line of the summary was sent no photo in that cycle
SuppressedIn(log, key) ==
    /\ \E i \in Sent(log, "summary") :
           \E line \in Range(log[i].body.bullish)
                           \cup Range(log[i].body.bearish) :
               SignalKey(line[1], line[2]) = key
    /\ \A i \in Sent(log, "photo") :
           SignalKey(log[i].body.file[1], log[i].body.caption[2]) # key

\* a key approved in the first cycle is approved again in the fourth, to
\* the second 6 hours later, after the third cycle ran to its end and
\* suppressed it
C20_Witness ==
    /\ cycle = 4
    /\ pc = "sleep"
    /\ prev.ran
    /\ ~prev.failed
    /\ \E j \in 1..Len(checks) :
           /\ checks[j].ok
           /\ KeyOf(j) \in DOMAIN start_signals
           /\ CycleAt(start_signals[KeyOf(j)]) = 1
           /\ checks[j].at - start_signals[KeyOf(j)] = SILENCE_SECONDS
           /\ SuppressedIn(prev.sent, KeyOf(j))

---------------------------------------------------------------------------
(* C18                                                                     *)

\* a photo request of this cycle for the approval of check j
PhotoFor(j) ==
    \E i \in PhotosSent :
        /\ sent[i].body.file = ChartFile(checks[j].key[1], checks[j].at)
        /\ sent[i].body.caption[2] = checks[j].key[2]

\* C18: whenever a cycle records an approval for a key, a chart photo for
\* that key is requested in the same cycle, also when the rendering or the
\* removal of a chart file fails: every approval of this cycle has its
\* photo request. should_post writes the timestamp at line 174, before
\* plot_chart runs at line 210, so an exception of plot_chart leaves the
\* key silenced with no photo requested.
C18_ApprovalHasPhoto ==
    \A j \in Approved : PhotoFor(j)

===========================================================================
